---- MODULE Spec2Model ----
(***************************************************************************)
(* A model of src/app.js: the two resolvers of the GraphQL server          *)
(* (listRepositories, fetchRepositoriesDetails), the per-repository chain  *)
(* GitHubAPI.fetchSingleRepositoryData with its tree walk countBlobFiles,  *)
(* and the Apollo client that carries the GraphQL calls.                   *)
(*                                                                         *)
(* JavaScript values: a value that may be undefined/null is <<>> when it   *)
(* is absent and <<v>> when it is v.  A string that the code takes apart   *)
(* (an entry name, fileType) is a sequence of one-character strings; a     *)
(* path is a sequence of child positions, the empty string being <<>>.     *)
(* Array indices keep JavaScript's 0-based values; position k of a JS      *)
(* array is element k+1 of the sequence.                                   *)
(***************************************************************************)
EXTENDS Integers, Sequences, FiniteSets, TLC

VARIABLES
    op,             \* which resolver was called: "none", "list", "details"
    pc,             \* where the resolver is: "idle", "awaitList", "starting",
                    \* "awaiting", "resolved", "rejected"
    args,           \* the arguments of fetchRepositoriesDetails
    promises,       \* line 224: one chain (promise of fetchSingleRepositoryData) per slot
    i,              \* line 218: the loop index of runMultiplePromiseAllInLoop
    results,        \* line 217: the pairs harvested so far
    allReason,      \* the rejection reason of the Promise.all being awaited, if it rejected
    value,          \* what the resolver returned, once resolved
    reason,         \* what the resolver rejected with, once rejected
    inFlight,       \* GraphQL queries the Apollo client has on the wire
    cache,          \* GraphQL queries whose results the InMemoryCache has been given
    upstreamRepos,  \* history: how many repositories the viewer had when the list was served
    firstRejected   \* history: the slot of the chain that rejected first in time (0: none)

vars == <<op, pc, args, promises, i, results, allReason, value, reason,
          inFlight, cache, upstreamRepos, firstRejected>>

-----------------------------------------------------------------------------
(* Bounds of the model.                                                    *)

MaxRepos == 3

MaxRoot == 2

MaxViewerRepos == 102

-----------------------------------------------------------------------------
(* JavaScript values.                                                      *)

Undefined == <<>>

Some(v) == <<v>>

Max(S) == CHOOSE x \in S : \A y \in S : y <= x

Min(a, b) == IF a <= b THEN a ELSE b

EmptyString == <<>>

\* String.prototype.indexOf for a one-character needle.
firstIndexOf(s, c) ==
    LET hits == {k \in 0..(Len(s) - 1) : s[k + 1] = c}
    IN  IF hits = {} THEN -1 ELSE CHOOSE k \in hits : \A h \in hits : k <= h

\* String.prototype.lastIndexOf for a one-character needle: the 0-based index
\* of the last occurrence, -1 when there is none.
lastIndexOf(s, c) ==
    LET hits == {k \in 0..(Len(s) - 1) : s[k + 1] = c}
    IN  IF hits = {} THEN -1 ELSE Max(hits)

\* String.prototype.slice(from) for 0 <= from <= length.
slice(s, from) == SubSeq(s, from + 1, Len(s))

\* type === fileType, where fileType may be undefined (the argument is nullable).
StrictEquals(type, fileType) == fileType # Undefined /\ type = fileType[1]

-----------------------------------------------------------------------------
(* fetchSingleRepositoryData, lines 174-193: the tree walk.  The closure    *)
(* variable fileTypePath is threaded through: countBlobFiles returns the   *)
(* number it returns in the code (sum) and fileTypePath as it leaves it.   *)

RECURSIVE countBlobFiles(_, _, _)
RECURSIVE reduceEntries(_, _, _, _)

\* entries.reduce((sum, e) => sum + countBlobFiles(e), 0), from the left.
reduceEntries(entries, fileType, sum, fileTypePath) ==
    IF entries = <<>> THEN [sum |-> sum, fileTypePath |-> fileTypePath]
    ELSE LET r == countBlobFiles(Head(entries), fileType, fileTypePath)
         IN  reduceEntries(Tail(entries), fileType, sum + r.sum, r.fileTypePath)

countBlobFilesCountsDirs(entry, fileType, fileTypePath) ==
    IF entry.type = "blob" \/ (entry.type = "tree" /\ entry.object = Undefined)
    THEN [sum |-> 1, fileTypePath |-> fileTypePath]
    ELSE IF entry.type = "tree"
    THEN reduceEntries(entry.object[1].entries, fileType, 0, fileTypePath)
    ELSE [sum |-> 0, fileTypePath |-> fileTypePath]

countBlobFilesFirstDot(entry, fileType, fileTypePath) ==
    IF entry.type = "blob"
    THEN LET entryName == entry.name
             dotIndex == firstIndexOf(entryName, ".")
             type == slice(entryName, dotIndex + 1)
         IN  [sum |-> 1,
              fileTypePath |-> IF StrictEquals(type, fileType) /\ fileTypePath = EmptyString
                               THEN entry.path ELSE fileTypePath]
    ELSE IF entry.type = "tree" /\ entry.object # Undefined
    THEN reduceEntries(entry.object[1].entries, fileType, 0, fileTypePath)
    ELSE [sum |-> 0, fileTypePath |-> fileTypePath]

countBlobFiles(entry, fileType, fileTypePath) ==
    IF entry.type = "blob"
    THEN LET entryName == entry.name
             lastDotIndex == lastIndexOf(entryName, ".")
             type == slice(entryName, lastDotIndex + 1)
         IN  [sum |-> 1,
              fileTypePath |-> IF StrictEquals(type, fileType) /\ fileTypePath = EmptyString
                               THEN entry.path ELSE fileTypePath]
    ELSE IF entry.type = "tree" /\ entry.object # Undefined
    THEN reduceEntries(entry.object[1].entries, fileType, 0, fileTypePath)
    ELSE [sum |-> 0, fileTypePath |-> fileTypePath]

\* Lines 174 and 193: fileTypePath starts "", and numberOfFiles is
\* repository.object?.entries.reduce(...): undefined when object is null.
AnalyzeTree(object, fileType) ==
    IF object = Undefined
    THEN [numberOfFiles |-> Undefined, fileTypePath |-> EmptyString]
    ELSE LET r == reduceEntries(object[1].entries, fileType, 0, EmptyString)
         IN  [numberOfFiles |-> Some(r.sum), fileTypePath |-> r.fileTypePath]

-----------------------------------------------------------------------------
(* The upstream: what GitHub answers.                                      *)

Blob(name, path) == [name |-> name, type |-> "blob", path |-> path, object |-> Undefined]

Dir(name, path, object) == [name |-> name, type |-> "tree", path |-> path, object |-> object]

\* A submodule entry: neither a blob nor a tree.
Commit(name, path) == [name |-> name, type |-> "commit", path |-> path, object |-> Undefined]

Entries(es) == Some([entries |-> es])

StrY == <<"y">>

BlobNames == { <<"a", ".", "y">>,          \* a.y
               <<"a", ".", "b", ".", "y">>,\* a.b.y
               <<"y">>,                    \* y: no dot
               <<"a", ".">> }              \* a.: nothing after the dot

DirName == <<"d">>

FileTypes == { Undefined, Some(EmptyString), Some(StrY), Some(<<"Y">>),
               Some(<<"b", ".", "y">>) }

\* The expanded children a directory at path p may carry (the query of lines
\* 61-106 expands two levels below the root entries).
SubTrees(p) ==
    { <<>>,
      << Blob(<<"a", ".", "y">>, p \o <<1>>) >>,
      << Blob(<<"y">>, p \o <<1>>), Blob(<<"b", ".", "y">>, p \o <<2>>) >>,
      << Dir(DirName, p \o <<1>>, Entries(<< Blob(<<"c", ".", "y">>, p \o <<1, 1>>) >>)),
         Blob(<<"a", ".">>, p \o <<2>>) >>,
      << Dir(DirName, p \o <<1>>, Undefined), Commit(DirName, p \o <<2>>) >> }

EntriesAt(p) ==
    {Blob(n, p) : n \in BlobNames}
        \cup {Commit(DirName, p), Dir(DirName, p, Undefined)}
        \cup {Dir(DirName, p, Entries(s)) : s \in SubTrees(p)}

RECURSIVE RootEntries(_)
RootEntries(n) ==
    IF n = 0 THEN {<<>>}
    ELSE {Append(s, e) : s \in RootEntries(n - 1), e \in EntriesAt(<<n>>)}

\* repository.object for expression "master:": null when the repository has no
\* master branch, else the root tree.
AllTreeObjects ==
    {Undefined} \cup UNION {{Entries(es) : es \in RootEntries(n)} : n \in 0..MaxRoot}

\* The tree of repository "a": a directory holding a matching file, then a
\* matching file at the root.
TreeA ==
    Entries(<< Dir(DirName, <<1>>, Entries(<< Blob(<<"a", ".", "y">>, <<1, 1>>) >>)),
               Blob(<<"b", ".", "y">>, <<2>>) >>)

\* What the tree query may answer for a repository name: "t" ranges over every
\* tree within the bounds, "a" has the tree above, any other repository has no
\* master branch.
UpstreamTreeObjects(name) ==
    IF name = "t" THEN AllTreeObjects
    ELSE IF name = "a" THEN {TreeA}
    ELSE {Undefined}

ViewerLogin == "viewer"

\* viewer.repository(name: ...) of lines 81-105.
Repository(name, object) ==
    [name |-> name, owner |-> [login |-> ViewerLogin],
     diskUsage |-> IF name = "a" THEN 10 ELSE 20, visibility |-> "PUBLIC",
     object |-> object]

\* The decoded body of GET /repos/{owner}/{repo}/hooks (lines 122-127): the hooks
\* of that owner's repository, or GitHub's error object when that owner has no
\* such repository (here: the other owner has a repository "a" and no other).
HookBodies(owner, repo) ==
    {[hooksOf |-> <<owner, repo>>, notFound |-> (owner # ViewerLogin /\ repo # "a")]}

\* repository.object?.text of the content query (lines 108-120, 197): the
\* expression "master:" (empty path) names the root tree, as in line 91, or
\* nothing, and neither has text.
UpstreamText(repo, path) ==
    IF path = EmptyString THEN Undefined ELSE Some([textOf |-> <<repo, path>>])

\* The viewer's repositories, in the order the upstream keeps them.
ViewerRepositories(n) ==
    IF n = 0 THEN <<>>
    ELSE [k \in 1..n |-> [name |-> k, diskUsage |-> k, owner |-> [login |-> ViewerLogin]]]

PageSize == 100

RepositoriesFirst(nodes, n) == SubSeq(nodes, 1, Min(n, Len(nodes)))

\* repositories(last: 100), line 154: the last n nodes of the connection.
RepositoriesLast(nodes, n) ==
    SubSeq(nodes, (IF Len(nodes) > n THEN Len(nodes) - n ELSE 0) + 1, Len(nodes))

-----------------------------------------------------------------------------
(* The Apollo client of lines 131-147: client.query with no options, so    *)
(* with the client's defaults.  A query identical to one on the wire       *)
(* shares its request; a query the InMemoryCache can answer in full is     *)
(* answered without a request.  Whether the cache still holds a result     *)
(* depends on what later responses overwrote, so both outcomes are kept.   *)

ListKey == <<"list">>

TreeKey(repoName) == <<"tree", repoName>>

ContentKeyRootPath(repoName, fileTypePath) == <<"content", repoName, EmptyString>>

\* getContentForSpecificFileGraphqlQuery(repoName, fileTypePath), line 196.
ContentKey(repoName, fileTypePath) == <<"content", repoName, fileTypePath>>

\* The result written for w holds every field k selects: k is w, or k asks a
\* repository's object at "master:" for its text and w is that repository's
\* tree query, which stored that object.
Covers(w, k) ==
    \/ w = k
    \/ /\ w[1] = "tree"
       /\ k[1] = "content"
       /\ k[2] = w[2]
       /\ k[3] = EmptyString

Routes(key, wire, store) ==
    (IF \E w \in store : Covers(w, key) THEN {"cache"} ELSE {})
        \cup (IF key \in wire THEN {"joined"} ELSE {"network"})

-----------------------------------------------------------------------------
(* Requests the model serves.                                              *)

RECURSIVE SeqsUpTo(_, _)
SeqsUpTo(S, n) ==
    IF n = 0 THEN {<<>>}
    ELSE LET shorter == SeqsUpTo(S, n - 1)
         IN  shorter \cup {Append(s, x) : s \in {t \in shorter : Len(t) = n - 1}, x \in S}

\* Up to MaxRepos names among "a" and "b" (repeats included) with either owner,
\* and the single repository "t" with every fileType.
DetailRequests ==
    {[repoNames |-> ns, fileType |-> Some(StrY), owner |-> o] :
        ns \in SeqsUpTo({"a", "b"}, MaxRepos), o \in {ViewerLogin, "other"}}
    \cup {[repoNames |-> <<"t">>, fileType |-> ft, owner |-> ViewerLogin] : ft \in FileTypes}

-----------------------------------------------------------------------------
(* fetchSingleRepositoryData, lines 169-200: one chain.                    *)

Call(kind, repo, owner, path, via) ==
    [kind |-> kind, repo |-> repo, owner |-> owner, path |-> path, via |-> via,
     body |-> Undefined]

\* Lines 169-172: the chain runs up to its first await, so the tree query is
\* handed to the client when the chain is created.
NewChain(repoName, via) ==
    [pc |-> "tree", repoName |-> repoName, response |-> Undefined,
     fileTypePath |-> EmptyString, reason |-> Undefined,
     calls |-> << Call("tree", repoName, Undefined, Undefined, via) >>]

WebhookRequestTreeOwner(owner, repoName, repository) ==
    Call("hooks", repoName, Some(repository.owner.login), Undefined, "network")

\* Line 194: getActiveWebhooks(owner, repoName), owner being the resolver's argument.
WebhookRequest(owner, repoName, repository) ==
    Call("hooks", repoName, Some(owner), Undefined, "network")

\* Lines 174-194: the continuation after the tree response.
AfterTree(c, repository, fileType, owner) ==
    LET a == AnalyzeTree(repository.object, fileType)
    IN  [c EXCEPT !.pc = "hooks",
                  !.response = Some([repository |-> repository,
                                     numberOfFiles |-> a.numberOfFiles,
                                     activeWebhooks |-> Undefined,
                                     contentOfSpecificFile |-> Undefined]),
                  !.fileTypePath = a.fileTypePath,
                  !.calls = Append(@, WebhookRequest(owner, c.repoName, repository))]

\* Lines 194-196: the continuation after the webhook response.
AfterHooks(c, body, via) ==
    LET key == ContentKey(c.repoName, c.fileTypePath)
    IN  [c EXCEPT !.pc = "content",
                  !.response = Some([c.response[1] EXCEPT !.activeWebhooks = Some(body)]),
                  !.calls = Append([@ EXCEPT ![2].body = Some(body)],
                                   Call("content", key[2], Undefined, Some(key[3]), via))]

\* Lines 195-199: the continuation after the content response.
AfterContent(c) ==
    [c EXCEPT !.pc = "fulfilled",
              !.response = Some([c.response[1] EXCEPT
                  !.contentOfSpecificFile = UpstreamText(c.calls[3].repo, c.calls[3].path[1])])]

\* No catch anywhere in the chain: a failed call rejects the chain's promise.
Rejected(c, j, call) == [c EXCEPT !.pc = "rejected", !.reason = Some([chain |-> j, call |-> call])]

-----------------------------------------------------------------------------
(* The resolver fetchRepositoriesDetails, lines 215-245.                   *)

IteratorNextOneMore(names, k) ==
    IF k < Len(names) THEN [done |-> FALSE, value |-> names[k + 1]]
    ELSE IF k = Len(names) THEN [done |-> FALSE, value |-> "undefined"]
    ELSE [done |-> TRUE, value |-> "undefined"]

IteratorNextFirstPair(names, k) ==
    IF k < Len(names) /\ k < 2 THEN [done |-> FALSE, value |-> names[k + 1]]
    ELSE [done |-> TRUE, value |-> "undefined"]

\* for (const repoName of repoNames), line 225: the array iterator after k values.
IteratorNext(names, k) ==
    IF k < Len(names) THEN [done |-> FALSE, value |-> names[k + 1]]
    ELSE [done |-> TRUE, value |-> "undefined"]

\* promises[k] as Promise.all sees it: an index past the end is undefined, which
\* Promise.all takes as fulfilled with undefined.
SlotState(ps, k) ==
    IF k >= Len(ps) THEN "fulfilled"
    ELSE IF ps[k + 1].pc \in {"fulfilled", "rejected"} THEN ps[k + 1].pc
    ELSE "pending"

SlotValue(ps, k) == IF k >= Len(ps) THEN Undefined ELSE ps[k + 1].response

InAnyPair(k, j) == TRUE

\* Whether promises[k] is one of the two promises of Promise.all([promises[j], promises[j + 1]]).
InAwaitedPair(k, j) == k = j \/ k = j + 1

\* The reason Promise.all([promises[j], promises[j + 1]]) rejects with when it is
\* created: that of the first already rejected promise, if any.
PromiseAllReason(ps, j) ==
    IF SlotState(ps, j) = "rejected" THEN ps[j + 1].reason
    ELSE IF SlotState(ps, j + 1) = "rejected" THEN ps[j + 2].reason
    ELSE Undefined

PromiseAllSettledState(ps, j, seen) ==
    IF SlotState(ps, j) # "pending" /\ SlotState(ps, j + 1) # "pending" THEN "fulfilled"
    ELSE "pending"

\* Promise.all([promises[j], promises[j + 1]]), line 219; seen is the first
\* rejection it was told of.
PromiseAllState(ps, j, seen) ==
    IF seen # Undefined THEN "rejected"
    ELSE IF SlotState(ps, j) = "fulfilled" /\ SlotState(ps, j + 1) = "fulfilled" THEN "fulfilled"
    ELSE "pending"

PairValuesSwapped(ps, j) == << SlotValue(ps, j + 1), SlotValue(ps, j) >>

\* What await Promise.all([promises[j], promises[j + 1]]) evaluates to.
PairValues(ps, j) == << SlotValue(ps, j), SlotValue(ps, j + 1) >>

\* Array.prototype.flat over the pairs, line 229.
RECURSIVE Flat(_)
Flat(pairs) == IF pairs = <<>> THEN <<>> ELSE Head(pairs) \o Flat(Tail(pairs))

\* Lines 233-242: the record built from one chain's response.
RecordOf(data) ==
    LET repo == data.repository
    IN  [name |-> repo.name,
         visibility |-> repo.visibility,
         size |-> repo.diskUsage,
         owner |-> repo.owner.login,
         numberOfFiles |-> data.numberOfFiles,
         fileContent |-> data.contentOfSpecificFile,
         activeWebhooks |-> data.activeWebhooks]

\* result.filter(data => data).map(...), lines 231-244.
FilterMap(result) ==
    LET kept == SelectSeq(result, LAMBDA data : data # Undefined)
    IN  IF kept = <<>> THEN <<>> ELSE [k \in 1..Len(kept) |-> RecordOf(kept[k][1])]

\* Lines 207-213: the list resolver's map.
ListRepositoriesMap(nodes) ==
    IF nodes = <<>> THEN <<>> ELSE
    [k \in 1..Len(nodes) |->
        [name |-> nodes[k].name, owner |-> nodes[k].owner.login, size |-> nodes[k].diskUsage]]

-----------------------------------------------------------------------------
(* The state machine.                                                      *)

NoArgs == [repoNames |-> <<>>, fileType |-> Undefined, owner |-> ViewerLogin]

\* The server after main(): no resolver called.  Apollo Server builds a new
\* GitHubAPI, hence a new client with an empty cache, for each request.
Init ==
    /\ op = "none"
    /\ pc = "idle"
    /\ args = NoArgs
    /\ promises = <<>>
    /\ i = 0
    /\ results = <<>>
    /\ allReason = Undefined
    /\ value = Undefined
    /\ reason = Undefined
    /\ inFlight = {}
    /\ cache = {}
    /\ upstreamRepos = Undefined
    /\ firstRejected = 0

\* Lines 205-206 and 149-166: the list resolver hands its query to the client.
CallListRepositories ==
    /\ op = "none"
    /\ op' = "list"
    /\ pc' = "awaitList"
    /\ inFlight' = inFlight \cup {ListKey}
    /\ UNCHANGED <<args, promises, i, results, allReason, value, reason, cache,
                   upstreamRepos, firstRejected>>

\* Lines 206-213: the page arrives and is mapped.
ListResponse ==
    /\ pc = "awaitList"
    /\ \E n \in 0..MaxViewerRepos :
          /\ upstreamRepos' = Some(n)
          /\ value' = Some(ListRepositoriesMap(RepositoriesLast(ViewerRepositories(n), PageSize)))
    /\ pc' = "resolved"
    /\ inFlight' = inFlight \ {ListKey}
    /\ cache' = cache \cup {ListKey}
    /\ UNCHANGED <<op, args, promises, i, results, allReason, reason, firstRejected>>

\* Line 206: the query fails and nothing catches it.
ListFail ==
    /\ pc = "awaitList"
    /\ pc' = "rejected"
    /\ reason' = Some([chain |-> 0, call |-> "list"])
    /\ inFlight' = inFlight \ {ListKey}
    /\ UNCHANGED <<op, args, promises, i, results, allReason, value, cache,
                   upstreamRepos, firstRejected>>

\* Line 215: the details resolver is called.
CallFetchRepositoriesDetails ==
    /\ op = "none"
    /\ \E req \in DetailRequests : args' = req
    /\ op' = "details"
    /\ pc' = "starting"
    /\ UNCHANGED <<promises, i, results, allReason, value, reason, inFlight, cache,
                   upstreamRepos, firstRejected>>

\* Lines 225-227, one turn of the loop: the chain of the next name is created
\* and its tree query handed to the client.
StartChain ==
    /\ pc = "starting"
    /\ LET it == IteratorNext(args.repoNames, Len(promises))
       IN  /\ ~it.done
           /\ \E via \in Routes(TreeKey(it.value), inFlight, cache) \ {"cache"} :
                 promises' = Append(promises, NewChain(it.value, via))
           /\ inFlight' = inFlight \cup {TreeKey(it.value)}
    /\ UNCHANGED <<op, pc, args, i, results, allReason, value, reason, cache,
                   upstreamRepos, firstRejected>>

\* Lines 218-221 and 229-244 from loop index j with the pairs res harvested:
\* await the next pair, or leave the loop and return the records.
LoopAt(j, res) ==
    /\ i' = j
    /\ results' = res
    /\ IF j < Len(promises)
       THEN /\ pc' = "awaiting"
            /\ allReason' = PromiseAllReason(promises, j)
            /\ value' = value
       ELSE /\ pc' = "resolved"
            /\ allReason' = allReason
            /\ value' = Some(FilterMap(Flat(res)))

\* Lines 227-229: the for loop is over; runMultiplePromiseAllInLoop is entered.
BeginAwait ==
    /\ pc = "starting"
    /\ IteratorNext(args.repoNames, Len(promises)).done
    /\ LoopAt(0, <<>>)
    /\ UNCHANGED <<op, args, promises, reason, inFlight, cache, upstreamRepos, firstRejected>>

\* Line 219: the awaited Promise.all fulfilled; push its pair and go on.
AwaitPair ==
    /\ pc = "awaiting"
    /\ PromiseAllState(promises, i, allReason) = "fulfilled"
    /\ LoopAt(i + 2, Append(results, PairValues(promises, i)))
    /\ UNCHANGED <<op, args, promises, reason, inFlight, cache, upstreamRepos, firstRejected>>

\* Line 219: the awaited Promise.all rejected; nothing catches it up to the resolver.
RejectCall ==
    /\ pc = "awaiting"
    /\ PromiseAllState(promises, i, allReason) = "rejected"
    /\ pc' = "rejected"
    /\ reason' = allReason
    /\ UNCHANGED <<op, args, promises, i, results, allReason, value, inFlight, cache,
                   upstreamRepos, firstRejected>>

\* The chains js reject now, lowest slot first: the awaited Promise.all keeps
\* the first rejection among its own two promises.
NoteRejections(js, call) ==
    LET mine == {j \in js : InAwaitedPair(j - 1, i)}
    IN  /\ allReason' = IF pc = "awaiting" /\ allReason = Undefined /\ mine # {}
                        THEN Some([chain |-> CHOOSE j \in mine : \A h \in mine : j <= h,
                                   call |-> call])
                        ELSE allReason
        /\ firstRejected' = IF firstRejected = 0
                            THEN CHOOSE j \in js : \A h \in js : j <= h
                            ELSE firstRejected

\* The chains waiting for the answer to the GraphQL query key.
Waiting(key) ==
    {j \in 1..Len(promises) :
        LET c == promises[j]
        IN  IF key[1] = "tree"
            THEN c.pc = "tree" /\ c.repoName = key[2]
            ELSE /\ c.pc = "content"
                 /\ c.calls[3].via # "cache"
                 /\ <<"content", c.calls[3].repo, c.calls[3].path[1]>> = key}

\* The event loop runs a response's callbacks only between synchronous blocks:
\* never while the resolver is still in its for loop.
LoopFree == op = "details" /\ pc # "starting"

\* Lines 170-194: the answer to a tree query arrives; every chain sharing the
\* request goes on to its webhook fetch.
TreeResponse ==
    /\ LoopFree
    /\ \E key \in inFlight :
          /\ key[1] = "tree"
          /\ \E object \in UpstreamTreeObjects(key[2]) :
                promises' = [j \in 1..Len(promises) |->
                    IF j \in Waiting(key)
                    THEN AfterTree(promises[j], Repository(key[2], object),
                                   args.fileType, args.owner)
                    ELSE promises[j]]
          /\ inFlight' = inFlight \ {key}
          /\ cache' = cache \cup {key}
    /\ UNCHANGED <<op, pc, args, i, results, allReason, value, reason,
                   upstreamRepos, firstRejected>>

\* Line 170: the tree query fails.
TreeFail ==
    /\ LoopFree
    /\ \E key \in inFlight :
          /\ key[1] = "tree"
          /\ promises' = [j \in 1..Len(promises) |->
                IF j \in Waiting(key) THEN Rejected(promises[j], j, "tree") ELSE promises[j]]
          /\ NoteRejections(Waiting(key), "tree")
          /\ inFlight' = inFlight \ {key}
    /\ UNCHANGED <<op, pc, args, i, results, value, reason, cache, upstreamRepos>>

\* Lines 194-196: the webhook response of chain j arrives; the chain hands its
\* content query to the client.
HooksResponse ==
    /\ LoopFree
    /\ \E j \in 1..Len(promises) :
          /\ promises[j].pc = "hooks"
          /\ LET c == promises[j]
                 key == ContentKey(c.repoName, c.fileTypePath)
             IN  \E body \in HookBodies(c.calls[2].owner[1], c.calls[2].repo) :
                 \E via \in Routes(key, inFlight, cache) :
                    /\ promises' = [promises EXCEPT ![j] = AfterHooks(c, body, via)]
                    /\ inFlight' = IF via = "cache" THEN inFlight ELSE inFlight \cup {key}
    /\ UNCHANGED <<op, pc, args, i, results, allReason, value, reason, cache,
                   upstreamRepos, firstRejected>>

\* Line 194: the webhook fetch (or decoding its body) fails.
HooksFail ==
    /\ LoopFree
    /\ \E j \in 1..Len(promises) :
          /\ promises[j].pc = "hooks"
          /\ promises' = [promises EXCEPT ![j] = Rejected(promises[j], j, "hooks")]
          /\ NoteRejections({j}, "hooks")
    /\ UNCHANGED <<op, pc, args, i, results, value, reason, inFlight, cache, upstreamRepos>>

\* Lines 195-199: the answer to a content query arrives; every chain sharing
\* the request returns its response.
ContentResponse ==
    /\ LoopFree
    /\ \E key \in inFlight :
          /\ key[1] = "content"
          /\ promises' = [j \in 1..Len(promises) |->
                IF j \in Waiting(key) THEN AfterContent(promises[j]) ELSE promises[j]]
          /\ inFlight' = inFlight \ {key}
          /\ cache' = cache \cup {key}
    /\ UNCHANGED <<op, pc, args, i, results, allReason, value, reason,
                   upstreamRepos, firstRejected>>

\* Lines 195-199: the cache answers chain j's content query.
ContentFromCache ==
    /\ LoopFree
    /\ \E j \in 1..Len(promises) :
          /\ promises[j].pc = "content"
          /\ promises[j].calls[3].via = "cache"
          /\ promises' = [promises EXCEPT ![j] = AfterContent(promises[j])]
    /\ UNCHANGED <<op, pc, args, i, results, allReason, value, reason, inFlight, cache,
                   upstreamRepos, firstRejected>>

\* Line 195: the content query fails.
ContentFail ==
    /\ LoopFree
    /\ \E key \in inFlight :
          /\ key[1] = "content"
          /\ promises' = [j \in 1..Len(promises) |->
                IF j \in Waiting(key) THEN Rejected(promises[j], j, "content") ELSE promises[j]]
          /\ NoteRejections(Waiting(key), "content")
          /\ inFlight' = inFlight \ {key}
    /\ UNCHANGED <<op, pc, args, i, results, value, reason, cache, upstreamRepos>>

Next ==
    \/ CallListRepositories
    \/ ListResponse
    \/ ListFail
    \/ CallFetchRepositoriesDetails
    \/ StartChain
    \/ BeginAwait
    \/ AwaitPair
    \/ RejectCall
    \/ TreeResponse
    \/ TreeFail
    \/ HooksResponse
    \/ HooksFail
    \/ ContentResponse
    \/ ContentFromCache
    \/ ContentFail

Spec == Init /\ [][Next]_vars

\* The event loop runs every queued continuation of the resolver: its awaits
\* resume once the promise they wait for has settled.
FairSpec ==
    /\ Spec
    /\ WF_vars(StartChain)
    /\ WF_vars(BeginAwait)
    /\ WF_vars(AwaitPair)
    /\ WF_vars(RejectCall)

-----------------------------------------------------------------------------
(* Vocabulary of the properties.                                           *)

Details == op = "details"

Names == args.repoNames

Chains == 1..Len(promises)

\* The resolver is past its for loop: at its await, or settled.
PastLoop == pc \in {"awaiting", "resolved", "rejected"}

CallSettled == pc \in {"resolved", "rejected"}

AllChainsSettled ==
    /\ Details
    /\ PastLoop
    /\ \A j \in Chains : promises[j].pc \in {"fulfilled", "rejected"}

SomeChainRejected == \E j \in Chains : promises[j].pc = "rejected"

\* The pair (0, 1, ...) that slot j (1, 2, ...) is awaited in.
PairOf(j) == (j - 1) \div 2

\* The root object the tree query returned to chain j.
TreeObjectOf(j) == promises[j].response[1].repository.object

Range(f) == {f[x] : x \in DOMAIN f}

\* The paths of the blob entries reachable from entries through directories
\* that carry expanded children: a set, so no order of entries enters it.
RECURSIVE BlobPaths(_)
BlobPaths(entries) ==
    {e.path : e \in {x \in Range(entries) : x.type = "blob"}}
        \cup UNION {BlobPaths(e.object[1].entries) :
                      e \in {x \in Range(entries) : x.type = "tree" /\ x.object # Undefined}}

\* The same blob entries in depth-first pre-order.
RECURSIVE BlobsPreOrder(_)
BlobsPreOrder(entries) ==
    IF entries = <<>> THEN <<>>
    ELSE LET e == Head(entries)
             here == IF e.type = "blob" THEN <<e>>
                     ELSE IF e.type = "tree" /\ e.object # Undefined
                     THEN BlobsPreOrder(e.object[1].entries)
                     ELSE <<>>
         IN  here \o BlobsPreOrder(Tail(entries))

\* The part of a name after its last ".", the whole name when it has none.
Extension(name) ==
    IF \A k \in 1..Len(name) : name[k] # "." THEN name
    ELSE LET d == CHOOSE k \in 1..Len(name) :
                     name[k] = "." /\ \A h \in (k + 1)..Len(name) : name[h] # "."
         IN  [k \in 1..(Len(name) - d) |-> name[d + k]]

Matching(object, fileType) ==
    IF object = Undefined \/ fileType = Undefined THEN <<>>
    ELSE SelectSeq(BlobsPreOrder(object[1].entries),
                   LAMBDA e : Extension(e.name) = fileType[1])

\* The path of the first matching blob in pre-order, "" when there is none.
FirstMatchingPath(object, fileType) ==
    LET m == Matching(object, fileType)
    IN  IF m = <<>> THEN EmptyString ELSE m[1].path

-----------------------------------------------------------------------------
(* The claims.                                                             *)

\* C1: when the call resolves, every chain has fulfilled, the result holds one
\* record per requested name and the record at position k is the one built from
\* the response of the chain started for repoNames[k], whatever the number of
\* names and the order the chains completed in; the call is rejected only if a
\* chain rejected, so the undefined second slot of an odd last pair neither
\* fails the call nor adds a record.
C1_RecordsInInputOrder ==
    Details =>
        /\ pc = "resolved" =>
              /\ Len(promises) = Len(Names)
              /\ Len(value[1]) = Len(Names)
              /\ \A k \in 1..Len(Names) :
                    /\ promises[k].pc = "fulfilled"
                    /\ promises[k].repoName = Names[k]
                    /\ value[1][k] = RecordOf(promises[k].response[1])
                    /\ value[1][k].name = Names[k]
        /\ pc = "rejected" => SomeChainRejected

C1_Witness ==
    /\ Details
    /\ pc = "resolved"
    /\ Len(Names) = 3
    /\ Names[1] # Names[2]
    /\ Len(value[1]) = 3
    /\ Len(results) = 2
    /\ results[2][2] = Undefined

\* C2: once a chain has rejected the call never resolves and returns no list;
\* when every chain has settled and the resolver has nothing left to run, a call
\* with a rejected chain has been rejected, with the reason of a rejected chain.
C2_AllOrNothing ==
    Details =>
        /\ SomeChainRejected => (pc # "resolved" /\ value = Undefined)
        /\ pc = "rejected" =>
              /\ value = Undefined
              /\ \E j \in Chains : promises[j].pc = "rejected" /\ reason = promises[j].reason
        /\ (SomeChainRejected /\ AllChainsSettled /\ ~ENABLED (AwaitPair \/ RejectCall))
              => pc = "rejected"

C2_Witness ==
    /\ Details
    /\ pc = "rejected"
    /\ Len(promises) = 3
    /\ promises[1].pc = "fulfilled"
    /\ promises[2].pc = "rejected"
    /\ promises[3].pc = "fulfilled"

\* C3: with repoNames = [] no chain is created and no query or fetch is ever
\* handed to the client or the network, and the call resolves to the empty list.
C3_EmptyRequest ==
    (Details /\ Names = <<>>) =>
        /\ promises = <<>>
        /\ inFlight = {}
        /\ cache = {}
        /\ pc \in {"starting", "resolved"}
        /\ pc = "resolved" => value = Some(<<>>)

C3_Witness == Details /\ Names = <<>> /\ pc = "resolved" /\ value = Some(<<>>)

\* C4: every webhook fetch goes to the hooks of (owner argument, requested
\* name), never to the owner login the tree query returned; the record's
\* activeWebhooks is the body that fetch returned and its owner is the login
\* of the tree response.
C4_WebhooksOfCallerOwner ==
    Details =>
        \A j \in Chains :
            LET c == promises[j]
            IN  /\ Len(c.calls) >= 2 =>
                      /\ c.calls[2].kind = "hooks"
                      /\ c.calls[2].via = "network"
                      /\ c.calls[2].owner = Some(args.owner)
                      /\ c.calls[2].repo = c.repoName
                /\ (pc = "resolved" /\ j <= Len(value[1])) =>
                      /\ c.calls[2].body # Undefined
                      /\ c.calls[2].body[1].hooksOf = <<args.owner, Names[j]>>
                      /\ value[1][j].activeWebhooks = c.calls[2].body
                      /\ value[1][j].owner = c.response[1].repository.owner.login

C4_Witness ==
    /\ Details
    /\ pc = "resolved"
    /\ Len(value[1]) >= 1
    /\ value[1][1].owner # args.owner
    /\ value[1][1].activeWebhooks[1].hooksOf[1] = args.owner

C6_FirstMatchingPath ==
    Details =>
        \A j \in Chains :
            LET c == promises[j]
            IN  Len(c.calls) >= 3 =>
                  LET expected == FirstMatchingPath(TreeObjectOf(j), args.fileType)
                  IN  /\ c.calls[3].kind = "content"
                      /\ c.calls[3].repo = Names[j]
                      /\ c.calls[3].path = Some(expected)
                      /\ (expected = EmptyString /\ c.pc = "fulfilled") =>
                            c.response[1].contentOfSpecificFile = Undefined
                      /\ (expected = EmptyString /\ pc = "resolved") =>
                            value[1][j].fileContent = Undefined

C6_Witness ==
    /\ Details
    /\ pc = "resolved"
    /\ Names = <<"t">>
    /\ Len(Matching(TreeObjectOf(1), args.fileType)) >= 2
    /\ Len(promises[1].calls[3].path[1]) = 2
    /\ value[1][1].fileContent # Undefined

\* C7 as stated: the list is the first 100 repositories of the viewer, in the
\* upstream's order.
C7_Original ==
    (op = "list" /\ pc = "resolved") =>
        LET n == upstreamRepos[1]
        IN  /\ Len(value[1]) = Min(n, PageSize)
            /\ \A k \in 1..Len(value[1]) :
                  value[1][k] = [name |-> k, owner |-> ViewerLogin, size |-> k]

\* C7, amended: the list holds one {name, owner, size} entry per repository of
\* the page, never more than 100; a viewer without repositories gets the empty
\* list, and a viewer with more than 100 gets exactly the last 100 of the
\* upstream's order, in that order.
C7_LastPage ==
    (op = "list" /\ pc = "resolved") =>
        LET n == upstreamRepos[1]
            skipped == IF n > PageSize THEN n - PageSize ELSE 0
        IN  /\ Len(value[1]) = Min(n, PageSize)
            /\ Len(value[1]) <= PageSize
            /\ n = 0 => value[1] = <<>>
            /\ \A k \in 1..Len(value[1]) :
                  value[1][k] = [name |-> skipped + k, owner |-> ViewerLogin,
                                 size |-> skipped + k]

C7_Witness ==
    /\ op = "list"
    /\ pc = "resolved"
    /\ upstreamRepos[1] > PageSize
    /\ Len(value[1]) = PageSize

\* C8: while the resolver is in its for loop it has awaited nothing and no
\* response has been handled; once it is past the loop (awaiting a pair, or
\* settled) every one of the N chains exists and has handed over its tree
\* query, so the pairwise awaiting never holds back the start of a chain.
C8_AllStartedBeforeAwait ==
    Details =>
        /\ pc = "starting" =>
              /\ i = 0
              /\ results = <<>>
              /\ \A j \in Chains : promises[j].pc = "tree"
        /\ PastLoop =>
              /\ Len(promises) = Len(Names)
              /\ \A j \in Chains :
                    /\ promises[j].calls[1].kind = "tree"
                    /\ promises[j].calls[1].repo = Names[j]

\* Three chains in flight at once, each with a webhook fetch on the wire, while
\* the resolver awaits the first pair.
C8_Witness ==
    /\ Details
    /\ pc = "awaiting"
    /\ i = 0
    /\ Len(promises) = 3
    /\ \A j \in Chains : promises[j].pc = "hooks"

C10_Safety ==
    Details =>
        /\ pc = "rejected" =>
              LET f == reason[1].chain
              IN  /\ f \in Chains
                  /\ promises[f].pc = "rejected"
                  /\ reason = promises[f].reason
                  /\ PairOf(f) = i \div 2
                  /\ \A j \in Chains : PairOf(j) < PairOf(f) => promises[j].pc = "fulfilled"
        /\ pc = "resolved" => \A j \in Chains : promises[j].pc = "fulfilled"

\* C10: the call is rejected only while it awaits the pair of the failed chain:
\* when it is rejected, its reason is that of a rejected chain of the pair it
\* was awaiting and every chain of the earlier pairs has fulfilled (so a chain
\* of an earlier pair that has not settled keeps the call pending whatever
\* failed later), and it resolves only when every chain has fulfilled; and once
\* every chain has settled the call is eventually resolved or rejected.
C10_FailureAtAwaitedPair == []C10_Safety /\ (AllChainsSettled ~> CallSettled)

\* The call was rejected by a chain of the first pair although the chain of the
\* second pair had rejected before it.
C10_Witness ==
    /\ Details
    /\ pc = "rejected"
    /\ Len(promises) = 3
    /\ firstRejected = 3
    /\ reason[1].chain \in {1, 2}

====
